---------------------------- MODULE Spec2Model ----------------------------
(***************************************************************************)
(* Kitura-net CurlHelpers: the eight C helpers that forward to libcurl's   *)
(* curl_easy_setopt / curl_easy_getinfo.  The model is one easy handle     *)
(* (the "session"), the option and info tables the engine keeps for it,    *)
(* and a caller that invokes the helpers one at a time.  Every helper is   *)
(* an operator over an execution record, written with the control flow of  *)
(* its C body; every engine call it issues is logged with the code the     *)
(* engine answered.                                                        *)
(***************************************************************************)
EXTENDS Integers, Sequences, FiniteSets

VARIABLES
  opt,      \* the handle's option table: option -> value last accepted
  info,     \* the handle's info table: info -> value of the last transfer
  phase,    \* "Configured" | "Transferring" | "Completed"
  build,    \* the engine build: option/info -> the code it answers for it
  op,       \* the helper call that returned last (name and arguments)
  calls,    \* the engine calls that helper issued, in order
  rc,       \* the CURLcode that helper returned
  out,      \* the caller's *data after that helper: <<>> unwritten, <<v>> written
  prev,     \* the helper call before it, with its return code
  nCalls    \* number of helper calls made so far

vars == <<opt, info, phase, build, op, calls, rc, out, prev, nCalls>>

---------------------------------------------------------------------------
(* Bounds of the model *)

MaxCalls == 3

---------------------------------------------------------------------------
(* Program constants *)

CURL_TRUE == 1
CURL_FALSE == 0

CURLE_OK == "CURLE_OK"

FailCodes == {"CURLE_UNKNOWN_OPTION", "CURLE_BAD_FUNCTION_ARGUMENT"}

BoolOptions == {"CURLOPT_HEADER", "CURLOPT_VERBOSE"}

IntOptions == {"CURLOPT_TIMEOUT"}

StringOptions == {"CURLOPT_URL"}

Options ==
  BoolOptions \cup IntOptions \cup StringOptions \cup
  {"CURLOPT_HTTPHEADER", "CURLOPT_READDATA", "CURLOPT_READFUNCTION",
   "CURLOPT_WRITEDATA", "CURLOPT_WRITEFUNCTION"}

LongInfos == {"CURLINFO_RESPONSE_CODE"}

StringInfos == {"CURLINFO_EFFECTIVE_URL"}

Infos == LongInfos \cup StringInfos

NULL == "NULL"

---------------------------------------------------------------------------
(* What the caller passes *)

YesNoValues == {CURL_FALSE, CURL_TRUE, 2, -1}

StringValues == {"urlA"}

\* Caller-owned header lists: addresses, and the lines stored at each.
\* slistA and slistA2 are two lists with equal contents.
Slists == {"slistA", "slistA2", "slistB"}

SlistLines(p) ==
  CASE p = "slistA"  -> <<"Accept: a", "X-Id: 1">>
    [] p = "slistA2" -> <<"Accept: a", "X-Id: 1">>
    [] p = "slistB"  -> <<"Host: b">>
    [] OTHER         -> <<>>

UserDatas == {"ctx1", "ctx2"}

ReadCallbacks == {NULL, "read_cb"}

WriteCallbacks == {NULL, "write_cb"}

---------------------------------------------------------------------------
(* The engine *)

\* A long is kept as its two 32-bit words.
Long(i) == [hi |-> 0, lo |-> i]

IsZero(l) == l.hi = 0 /\ l.lo = 0

\* An int passed through the variadic curl_easy_setopt where the engine
\* reads a long: the low word is the int, the high word is whatever the
\* calling convention left there (0, or 1 standing for any other pattern).
HighWords == {0, 1}

IntReadAsLong(i) == {[hi |-> h, lo |-> i] : h \in HighWords}

LongValues == {Long(0), Long(30)}

\* A build of the engine accepts everything, or rejects one option or one
\* info with one failure code.
AllAccepted == [k \in Options \cup Infos |-> CURLE_OK]

Builds ==
  {AllAccepted} \cup
  {[AllAccepted EXCEPT ![k] = c] : k \in Options \cup Infos, c \in FailCodes}

\* An execution of a helper: the option table so far, the engine calls so
\* far, the code of the latest engine call, the caller's *data.
Begin == [opt |-> opt, calls |-> <<>>, rc |-> CURLE_OK, out |-> <<>>]

curl_easy_setopt(e, option, value) ==
  LET code == build[option] IN
  [opt   |-> IF code = CURLE_OK THEN [e.opt EXCEPT ![option] = value] ELSE e.opt,
   calls |-> Append(e.calls, [fn |-> "setopt", key |-> option,
                              value |-> value, code |-> code]),
   rc    |-> code,
   out   |-> e.out]

curl_easy_getinfo(e, field) ==
  LET code == build[field] IN
  [opt   |-> e.opt,
   calls |-> Append(e.calls, [fn |-> "getinfo", key |-> field,
                              value |-> "data", code |-> code]),
   rc    |-> code,
   out   |-> IF code = CURLE_OK THEN <<info[field]>> ELSE e.out]

---------------------------------------------------------------------------
(* The helpers *)

\* Variant: C truthiness, any non-zero int is true.
BoolArg_NonZero(yesNo) == IF yesNo # 0 THEN Long(1) ELSE Long(0)

\* Variant: the arms of the conditional swapped.
BoolArg_Inverted(yesNo) == IF yesNo = CURL_TRUE THEN Long(0) ELSE Long(1)

BoolArg(yesNo) == IF yesNo = CURL_TRUE THEN Long(1) ELSE Long(0)

\* Variant: a true yesNo flips the option instead of setting it.
curlHelperSetOptBool_Toggles(e, option, yesNo) ==
  curl_easy_setopt(e, option,
                   IF yesNo = CURL_TRUE /\ ~IsZero(e.opt[option])
                     THEN Long(0) ELSE BoolArg(yesNo))

curlHelperSetOptBool(e, option, yesNo) ==
  curl_easy_setopt(e, option, BoolArg(yesNo))

\* Variant: CURLOPT_HEADER written for CURLOPT_HTTPHEADER.
curlHelperSetOptHeaders_WrongOption(e, headers) ==
  curl_easy_setopt(e, "CURLOPT_HEADER", headers)

curlHelperSetOptHeaders(e, headers) ==
  curl_easy_setopt(e, "CURLOPT_HTTPHEADER", headers)

curlHelperSetOptInt(e, option, data) ==
  curl_easy_setopt(e, option, data)

curlHelperSetOptString(e, option, data) ==
  curl_easy_setopt(e, option, data)

\* Variant: the function is bound before the context.
curlHelperSetOptReadFunc_FunctionFirst(e, userData, read_cb) ==
  LET e1 == curl_easy_setopt(e, "CURLOPT_READFUNCTION", read_cb) IN
  IF e1.rc = CURLE_OK
    THEN curl_easy_setopt(e1, "CURLOPT_READDATA", userData)
    ELSE e1

\* Variant: the first code is overwritten without being tested.
curlHelperSetOptReadFunc_Unchecked(e, userData, read_cb) ==
  LET e1 == curl_easy_setopt(e, "CURLOPT_READDATA", userData) IN
  curl_easy_setopt(e1, "CURLOPT_READFUNCTION", read_cb)

\* Variant: a null function is refused before the engine is called.
curlHelperSetOptReadFunc_RefusesNull(e, userData, read_cb) ==
  IF read_cb = NULL
    THEN [e EXCEPT !.rc = "CURLE_BAD_FUNCTION_ARGUMENT"]
    ELSE LET e1 == curl_easy_setopt(e, "CURLOPT_READDATA", userData) IN
         IF e1.rc = CURLE_OK
           THEN curl_easy_setopt(e1, "CURLOPT_READFUNCTION", read_cb)
           ELSE e1

curlHelperSetOptReadFunc(e, userData, read_cb) ==
  LET e1 == curl_easy_setopt(e, "CURLOPT_READDATA", userData) IN
  IF e1.rc = CURLE_OK
    THEN curl_easy_setopt(e1, "CURLOPT_READFUNCTION", read_cb)
    ELSE e1

\* Variant: the inner test is lost, the function is bound whenever the
\* header step succeeded.
curlHelperSetOptWriteFunc_InnerUnchecked(e, one, userData, write_cb) ==
  LET e1 == curl_easy_setopt(e, "CURLOPT_HEADER", one) IN
  IF e1.rc = CURLE_OK
    THEN LET e2 == curl_easy_setopt(e1, "CURLOPT_WRITEDATA", userData) IN
         curl_easy_setopt(e2, "CURLOPT_WRITEFUNCTION", write_cb)
    ELSE e1

\* Variant: the CURLOPT_HEADER step is left out.
curlHelperSetOptWriteFunc_NoHeader(e, one, userData, write_cb) ==
  LET e2 == curl_easy_setopt(e, "CURLOPT_WRITEDATA", userData) IN
  IF e2.rc = CURLE_OK
    THEN curl_easy_setopt(e2, "CURLOPT_WRITEFUNCTION", write_cb)
    ELSE e2

\* one is the long the engine reads for the int constant 1
curlHelperSetOptWriteFunc(e, one, userData, write_cb) ==
  LET e1 == curl_easy_setopt(e, "CURLOPT_HEADER", one) IN
  IF e1.rc = CURLE_OK
    THEN LET e2 == curl_easy_setopt(e1, "CURLOPT_WRITEDATA", userData) IN
         IF e2.rc = CURLE_OK
           THEN curl_easy_setopt(e2, "CURLOPT_WRITEFUNCTION", write_cb)
           ELSE e2
    ELSE e1

curlHelperGetInfoCString(e, field) == curl_easy_getinfo(e, field)

\* Variant: the engine's code is dropped and success reported.
curlHelperGetInfoLong_SwallowsCode(e, field) ==
  [curl_easy_getinfo(e, field) EXCEPT !.rc = CURLE_OK]

curlHelperGetInfoLong(e, field) == curl_easy_getinfo(e, field)

---------------------------------------------------------------------------
(* The caller *)

NoOp == [name |-> "none"]

Init ==
  /\ opt = [o \in Options |->
              CASE o \in BoolOptions -> Long(0)
                [] o \in IntOptions -> Long(0)
                [] o = "CURLOPT_READFUNCTION" -> "fread"
                [] o = "CURLOPT_WRITEFUNCTION" -> "fwrite"
                [] o = "CURLOPT_READDATA" -> "stdin"
                [] o = "CURLOPT_WRITEDATA" -> "stdout"
                [] OTHER -> NULL]
  /\ info = [i \in Infos |-> IF i \in LongInfos THEN 0 ELSE NULL]
  /\ phase = "Configured"
  /\ build \in Builds
  /\ op = NoOp
  /\ calls = <<>>
  /\ rc = CURLE_OK
  /\ out = <<>>
  /\ prev = [op |-> NoOp, rc |-> CURLE_OK]
  /\ nCalls = 0

\* Helpers are called one at a time, and not while a transfer is in flight.
CanCall == phase # "Transferring" /\ nCalls < MaxCalls

\* The helper returned: its effects and its result become visible.
Return(o, e) ==
  /\ opt' = e.opt
  /\ calls' = e.calls
  /\ rc' = e.rc
  /\ out' = e.out
  /\ op' = o
  /\ prev' = [op |-> op, rc |-> rc]
  /\ nCalls' = nCalls + 1
  /\ UNCHANGED <<info, phase, build>>

SetOptBool ==
  /\ CanCall
  /\ \E option \in BoolOptions, yesNo \in YesNoValues :
       Return([name |-> "SetOptBool", option |-> option, yesNo |-> yesNo],
              curlHelperSetOptBool(Begin, option, yesNo))

SetOptHeaders ==
  /\ CanCall
  /\ \E headers \in Slists :
       Return([name |-> "SetOptHeaders", headers |-> headers],
              curlHelperSetOptHeaders(Begin, headers))

SetOptInt ==
  /\ CanCall
  /\ \E option \in IntOptions, data \in LongValues :
       Return([name |-> "SetOptInt", option |-> option, data |-> data],
              curlHelperSetOptInt(Begin, option, data))

SetOptString ==
  /\ CanCall
  /\ \E option \in StringOptions, data \in StringValues :
       Return([name |-> "SetOptString", option |-> option, data |-> data],
              curlHelperSetOptString(Begin, option, data))

SetOptReadFunc ==
  /\ CanCall
  /\ \E userData \in UserDatas, read_cb \in ReadCallbacks :
       Return([name |-> "SetOptReadFunc", userData |-> userData, cb |-> read_cb],
              curlHelperSetOptReadFunc(Begin, userData, read_cb))

SetOptWriteFunc ==
  /\ CanCall
  /\ \E userData \in UserDatas, write_cb \in WriteCallbacks, one \in IntReadAsLong(1) :
       Return([name |-> "SetOptWriteFunc", userData |-> userData, cb |-> write_cb],
              curlHelperSetOptWriteFunc(Begin, one, userData, write_cb))

GetInfoCString ==
  /\ CanCall
  /\ \E field \in StringInfos :
       Return([name |-> "GetInfoCString", field |-> field],
              curlHelperGetInfoCString(Begin, field))

GetInfoLong ==
  /\ CanCall
  /\ \E field \in LongInfos :
       Return([name |-> "GetInfoLong", field |-> field],
              curlHelperGetInfoLong(Begin, field))

\* The engine's own transfer entry point, outside the helpers.
Perform ==
  /\ phase = "Configured"
  /\ phase' = "Transferring"
  /\ UNCHANGED <<opt, info, build, op, calls, rc, out, prev, nCalls>>

Complete ==
  /\ phase = "Transferring"
  /\ phase' = "Completed"
  /\ info' = [info EXCEPT !["CURLINFO_RESPONSE_CODE"] = 200,
                          !["CURLINFO_EFFECTIVE_URL"] = opt["CURLOPT_URL"]]
  /\ UNCHANGED <<opt, build, op, calls, rc, out, prev, nCalls>>

Next ==
  \/ SetOptBool
  \/ SetOptHeaders
  \/ SetOptInt
  \/ SetOptString
  \/ SetOptReadFunc
  \/ SetOptWriteFunc
  \/ GetInfoCString
  \/ GetInfoLong
  \/ Perform
  \/ Complete

Spec == Init /\ [][Next]_vars

---------------------------------------------------------------------------
(* The header list the session would send, and the caller-visible state *)

SessionHeaders == SlistLines(opt["CURLOPT_HTTPHEADER"])

HeaderIncluded == ~IsZero(opt["CURLOPT_HEADER"])

\* No transfer has run on the handle.
NeverTransferred == phase = "Configured"

---------------------------------------------------------------------------
(* Properties *)

N == Len(calls)

AllAcceptedUpTo(n) == \A i \in 1..n : calls[i].code = CURLE_OK

WriteOrder == <<"CURLOPT_HEADER", "CURLOPT_WRITEDATA", "CURLOPT_WRITEFUNCTION">>

\* C1: set_write_callback issues CURLOPT_HEADER (non-zero), then
\* CURLOPT_WRITEDATA (the context), then CURLOPT_WRITEFUNCTION (the
\* function); a failing step is the last one issued and its code is the
\* code returned; three accepted steps return CURLE_OK.
C1_WriteOrder ==
  op.name = "SetOptWriteFunc" =>
    /\ N \in 1..3
    /\ \A i \in 1..N : calls[i].fn = "setopt" /\ calls[i].key = WriteOrder[i]
    /\ ~IsZero(calls[1].value)
    /\ N >= 2 => calls[2].value = op.userData
    /\ N >= 3 => calls[3].value = op.cb
    /\ AllAcceptedUpTo(N - 1)
    /\ N < 3 => calls[N].code # CURLE_OK
    /\ rc = calls[N].code

\* The context step failed: the function step was not issued.
C1_Witness ==
  /\ op.name = "SetOptWriteFunc"
  /\ N = 2
  /\ rc # CURLE_OK
  /\ opt["CURLOPT_WRITEFUNCTION"] = "fwrite"

\* C2 as stated: after any set_write_callback, whatever it returns,
\* header-inclusion is enabled.
C2_Original == op.name = "SetOptWriteFunc" => HeaderIncluded

\* C2 amended: a set_write_callback whose header step the engine accepted
\* (every successful call, and every call failing at a later step) leaves
\* header-inclusion enabled; when the engine rejects the header step the
\* option keeps the value it had.
C2_HeaderWhenAccepted ==
  [][(nCalls' = nCalls + 1 /\ op'.name = "SetOptWriteFunc") =>
       /\ Len(calls') >= 1
       /\ calls'[1].key = "CURLOPT_HEADER"
       /\ rc' = CURLE_OK => calls'[1].code = CURLE_OK
       /\ Len(calls') >= 2 => calls'[1].code = CURLE_OK
       /\ IF calls'[1].code = CURLE_OK
            THEN ~IsZero(opt'["CURLOPT_HEADER"])
            ELSE opt'["CURLOPT_HEADER"] = opt["CURLOPT_HEADER"]]_vars

\* Header-inclusion had been switched off; the registration failed after
\* its first step and header-inclusion is on.
C2_Witness ==
  /\ op.name = "SetOptWriteFunc"
  /\ rc # CURLE_OK
  /\ HeaderIncluded
  /\ prev.op.name = "SetOptBool"
  /\ prev.op.option = "CURLOPT_HEADER"
  /\ prev.op.yesNo = CURL_FALSE
  /\ prev.rc = CURLE_OK

\* C3 as stated: every non-zero yesNo is handed to the engine as 1, and
\* only 0 as 0.
C3_Original ==
  op.name = "SetOptBool" =>
    calls[1].value = IF op.yesNo # 0 THEN [hi |-> 0, lo |-> 1]
                                     ELSE [hi |-> 0, lo |-> 0]

\* C3 amended: set_flag hands the engine 1 only for yesNo = CURL_TRUE (1);
\* every other int, the non-zero ones such as 2 and -1 included, is handed
\* as 0.
C3_OnlyCurlTrue ==
  op.name = "SetOptBool" =>
    /\ N = 1
    /\ calls[1].key = op.option
    /\ calls[1].value = IF op.yesNo = 1 THEN [hi |-> 0, lo |-> 1]
                                        ELSE [hi |-> 0, lo |-> 0]

\* The option was on, and set_flag with a non-zero value other than 1
\* switched it off.
C3_Witness ==
  /\ op.name = "SetOptBool"
  /\ op.yesNo \notin {0, 1}
  /\ rc = CURLE_OK
  /\ opt[op.option] = [hi |-> 0, lo |-> 0]
  /\ prev.op.name = "SetOptBool"
  /\ prev.op.option = op.option
  /\ prev.op.yesNo = 1
  /\ prev.rc = CURLE_OK

\* C4: after a successful set_flag(opt, CURL_TRUE) the option holds 1, after
\* a successful set_flag(opt, CURL_FALSE) it holds 0, whatever it held and
\* whatever was called before.
C4_CanonicalStored ==
  (op.name = "SetOptBool" /\ rc = CURLE_OK /\ op.yesNo \in {CURL_TRUE, CURL_FALSE}) =>
    /\ op.yesNo = CURL_TRUE => opt[op.option] = [hi |-> 0, lo |-> 1]
    /\ op.yesNo = CURL_FALSE => opt[op.option] = [hi |-> 0, lo |-> 0]
    /\ calls[1].value = opt[op.option]

\* set_flag(opt, CURL_TRUE) then set_flag(opt, CURL_FALSE): the last wins.
C4_Witness ==
  /\ op.name = "SetOptBool"
  /\ op.yesNo = CURL_FALSE
  /\ rc = CURLE_OK
  /\ prev.op.name = "SetOptBool"
  /\ prev.op.option = op.option
  /\ prev.op.yesNo = CURL_TRUE
  /\ prev.rc = CURLE_OK
  /\ opt[op.option] = [hi |-> 0, lo |-> 0]

\* C5: set_read_callback binds CURLOPT_READDATA first and
\* CURLOPT_READFUNCTION second; a rejected context ends the call with its
\* code and nothing changed; a rejected function ends it with that code,
\* the new context bound and the previous function still installed.
C5_ReadBinding ==
  [][(nCalls' = nCalls + 1 /\ op'.name = "SetOptReadFunc") =>
       /\ Len(calls') >= 1
       /\ calls'[1].key = "CURLOPT_READDATA"
       /\ calls'[1].value = op'.userData
       /\ IF calls'[1].code # CURLE_OK
            THEN /\ Len(calls') = 1
                 /\ rc' = calls'[1].code
                 /\ opt' = opt
            ELSE /\ Len(calls') = 2
                 /\ calls'[2].key = "CURLOPT_READFUNCTION"
                 /\ calls'[2].value = op'.cb
                 /\ rc' = calls'[2].code
                 /\ opt'["CURLOPT_READDATA"] = op'.userData
                 /\ opt'["CURLOPT_READFUNCTION"] =
                      IF rc' = CURLE_OK THEN op'.cb
                                        ELSE opt["CURLOPT_READFUNCTION"]]_vars

\* The partial state: context bound, function rejected.
C5_Witness ==
  /\ op.name = "SetOptReadFunc"
  /\ N = 2
  /\ rc # CURLE_OK
  /\ opt["CURLOPT_READDATA"] = op.userData
  /\ opt["CURLOPT_READFUNCTION"] = "fread"

\* C6 as stated: set_read_callback with a null function returns a
\* non-success code.
C6_Original ==
  (op.name = "SetOptReadFunc" /\ op.cb = NULL) => rc # CURLE_OK

\* C6 amended: set_read_callback with a null function makes no check of
\* its own: it binds the context, hands the null reference to the engine
\* and returns the engine's code, which is success exactly when the engine
\* accepted both options.
C6_NullPassedThrough ==
  (op.name = "SetOptReadFunc" /\ op.cb = NULL) =>
    /\ N >= 1
    /\ calls[1].key = "CURLOPT_READDATA"
    /\ calls[1].code = CURLE_OK =>
         /\ N = 2
         /\ calls[2].key = "CURLOPT_READFUNCTION"
         /\ calls[2].value = NULL
         /\ opt["CURLOPT_READDATA"] = op.userData
    /\ rc = CURLE_OK <=> (N = 2 /\ AllAcceptedUpTo(2))

\* A null function registered with success.
C6_Witness ==
  /\ op.name = "SetOptReadFunc"
  /\ op.cb = NULL
  /\ rc = CURLE_OK
  /\ opt["CURLOPT_READDATA"] = op.userData

\* C7: every helper returns the code of the last engine call it issued,
\* issues nothing after a failure, returns success only if every call it
\* issued succeeded, and issues no engine call twice.
C7_Propagation ==
  op.name # "none" =>
    /\ N >= 1
    /\ rc = calls[N].code
    /\ AllAcceptedUpTo(N - 1)
    /\ rc = CURLE_OK => AllAcceptedUpTo(N)
    /\ \A i, j \in 1..N : i # j => calls[i].key # calls[j].key

\* A failure at the last of three engine calls, returned to the caller.
C7_Witness ==
  /\ op.name = "SetOptWriteFunc"
  /\ N = 3
  /\ rc \in FailCodes
  /\ calls[3].code = rc

\* C8 as stated: get_info_integer for the response code on a session with
\* no transfer run fails.
C8_Original ==
  (op.name = "GetInfoLong" /\ op.field = "CURLINFO_RESPONSE_CODE" /\ NeverTransferred) =>
    rc # CURLE_OK

\* C8 amended: get_info_integer makes no check of the session's state: it
\* issues one engine query and returns the engine's code; on a session with
\* no transfer run it fails only when the engine rejects the query, and
\* otherwise returns success with the engine's value, 0.
C8_QueryPassedThrough ==
  op.name = "GetInfoLong" =>
    /\ N = 1
    /\ calls[1].fn = "getinfo"
    /\ calls[1].key = op.field
    /\ rc = calls[1].code
    /\ rc # CURLE_OK => out = <<>>
    /\ (rc = CURLE_OK /\ NeverTransferred) => out = <<0>>

\* Success and 0 before any transfer.
C8_Witness ==
  /\ op.name = "GetInfoLong"
  /\ op.field = "CURLINFO_RESPONSE_CODE"
  /\ NeverTransferred
  /\ rc = CURLE_OK
  /\ out = <<0>>

\* C9: after a successful set_headers the session's header list is the
\* caller's list itself: the engine was handed that address, the lines are
\* that list's lines in order, and nothing of an earlier list remains.
C9_HeadersReplaced ==
  (op.name = "SetOptHeaders" /\ rc = CURLE_OK) =>
    /\ N = 1
    /\ calls[1].key = "CURLOPT_HTTPHEADER"
    /\ calls[1].value = op.headers
    /\ opt["CURLOPT_HTTPHEADER"] = op.headers
    /\ SessionHeaders = SlistLines(op.headers)

\* Two successful set_headers in a row with different lists.
C9_Witness ==
  /\ op.name = "SetOptHeaders"
  /\ rc = CURLE_OK
  /\ prev.op.name = "SetOptHeaders"
  /\ prev.rc = CURLE_OK
  /\ prev.op.headers = "slistA"
  /\ op.headers = "slistB"
  /\ SessionHeaders = <<"Host: b">>

\* C10: a set_flag that repeats the previous set_flag (same option, same
\* value) changes nothing: option table and result are those of the first.
C10_Idempotent ==
  [][(/\ nCalls' = nCalls + 1
      /\ op.name = "SetOptBool"
      /\ op'.name = "SetOptBool"
      /\ op' = op) => (opt' = opt /\ rc' = rc)]_vars

\* The same successful set_flag(opt, CURL_TRUE) twice in a row.
C10_Witness ==
  /\ op.name = "SetOptBool"
  /\ prev.op.name = "SetOptBool"
  /\ prev.op = op
  /\ prev.rc = CURLE_OK
  /\ rc = CURLE_OK
  /\ op.yesNo = CURL_TRUE
  /\ opt[op.option] = [hi |-> 0, lo |-> 1]

=============================================================================
